---- MODULE Spec2Model ----
(***************************************************************************)
(* Model of the FastAPI service in src/app/main.py: six routes over a      *)
(* process-wide configuration (APP_VERSION, ENVIRONMENT, APP_START_TIME)   *)
(* and the system clock.                                                   *)
(*                                                                         *)
(* Time.  One clock unit is 4 ms, so that a reading is never exactly       *)
(* halfway between two hundredths of a second and round(x, 2) has no tie   *)
(* to break.  Rounded uptimes are kept in hundredths of a second.          *)
(*                                                                         *)
(* Text.  A str is a sequence of one-character strings.  The /metrics      *)
(* text is a sequence of tokens in which the quote and the newline are     *)
(* tokens of their own, because the JSON encoder escapes them.             *)
(*                                                                         *)
(* Every handler is an "async def" without an await, so it runs to         *)
(* completion on the event loop: one action per handler.                   *)
(***************************************************************************)
EXTENDS Integers, Sequences, FiniteSets, TLC

VARIABLES
    clock,            \* the system clock, as time.time() reads it (4 ms units)
    APP_START_TIME,   \* main.py:29
    APP_VERSION,      \* main.py:30
    ENVIRONMENT,      \* main.py:31
    req,              \* the request being answered
    resp,             \* the response to it
    entered,          \* whether the body of process_message ran for req
    raised,           \* the exception its try block raised for req, if any
    latest,           \* what the last handler reported as uptime, and at which reading
    earlier,          \* some observation made before latest
    resubmitOf,       \* for a resubmission: processed and length of the response sent back
    startup           \* the configuration as it was when the module was loaded

vars == <<clock, APP_START_TIME, APP_VERSION, ENVIRONMENT, req, resp, entered, raised,
          latest, earlier, resubmitOf, startup>>

-----------------------------------------------------------------------------
(* Bounds *)

MaxClock == 6
MaxStart == 1
MaxLen == 3

-----------------------------------------------------------------------------
(* Python str operations used by process_message *)

Alphabet == {"a", "A", " ", "ß"}

RECURSIVE StrsUpTo(_)
StrsUpTo(n) ==
    IF n = 0 THEN {<<>>}
    ELSE LET S == StrsUpTo(n - 1) IN
         S \cup {Append(s, c) : s \in {t \in S : Len(t) = n - 1}, c \in Alphabet}

\* str.isspace() of one character
isspace(c) == c = " "

\* str.upper() of one character; the sharp s becomes two characters
UpperChar(c) ==
    CASE c = "a" -> <<"A">>
      [] c = "ß" -> <<"S", "S">>
      [] OTHER   -> <<c>>

RECURSIVE upper(_)
upper(s) == IF s = <<>> THEN <<>> ELSE UpperChar(Head(s)) \o upper(Tail(s))

RECURSIVE lstrip(_)
lstrip(s) == IF s # <<>> /\ isspace(Head(s)) THEN lstrip(Tail(s)) ELSE s

RECURSIVE rstrip(_)
rstrip(s) ==
    IF s # <<>> /\ isspace(s[Len(s)]) THEN rstrip(SubSeq(s, 1, Len(s) - 1)) ELSE s

strip(s) == rstrip(lstrip(s))

\* only the leading whitespace is removed
TransformLstripOnly(message) == lstrip(upper(message))

\* str.swapcase() of one character
SwapChar(c) ==
    CASE c = "a" -> <<"A">>
      [] c = "A" -> <<"a">>
      [] c = "ß" -> <<"S", "S">>
      [] OTHER   -> <<c>>

RECURSIVE swapcase(_)
swapcase(s) == IF s = <<>> THEN <<>> ELSE SwapChar(Head(s)) \o swapcase(Tail(s))

\* the case is swapped instead of raised
TransformSwapcase(message) == strip(swapcase(message))

\* main.py:149
Transform(message) == strip(upper(message))

-----------------------------------------------------------------------------
(* Numbers and text *)

\* round(uptime, 1)
roundToTenth(u) == 10 * ((4 * u + 50) \div 100)

\* round(uptime, 2): a span of u clock units is 4u ms; the result is the
\* nearest hundredth of a second (4u + 5 is odd, so there is no tie)
round(u) == (4 * u + 5) \div 10

Digit(d) == <<"0", "1", "2", "3", "4", "5", "6", "7", "8", "9">>[d + 1]

DigitVal(c) ==
    CASE c = "0" -> 0 [] c = "1" -> 1 [] c = "2" -> 2 [] c = "3" -> 3
      [] c = "4" -> 4 [] c = "5" -> 5 [] c = "6" -> 6 [] c = "7" -> 7
      [] c = "8" -> 8 [] c = "9" -> 9 [] OTHER -> 0 - 1

RECURSIVE IntDigits(_)
IntDigits(n) == IF n < 10 THEN <<Digit(n)>> ELSE Append(IntDigits(n \div 10), Digit(n % 10))

\* the fractional digits of ms thousandths, without trailing zeros, at least one
FracDigits(ms) ==
    CASE ms % 100 = 0 -> <<Digit(ms \div 100)>>
      [] ms % 10 = 0  -> <<Digit(ms \div 100), Digit((ms \div 10) % 10)>>
      [] OTHER        -> <<Digit(ms \div 100), Digit((ms \div 10) % 10), Digit(ms % 10)>>

\* f"{uptime:.2f}"
FormatFloatTwoPlaces(u) ==
    LET cs == (4 * (IF u < 0 THEN 0 - u ELSE u) + 5) \div 10 IN
    (IF u < 0 THEN <<"-">> ELSE <<>>)
        \o IntDigits(cs \div 100) \o <<".", Digit((cs \div 10) % 10), Digit(cs % 10)>>

\* f"{uptime}" (main.py:129): the repr of the float, in seconds
FormatFloat(u) ==
    LET ms == 4 * (IF u < 0 THEN 0 - u ELSE u) IN
    (IF u < 0 THEN <<"-">> ELSE <<>>)
        \o IntDigits(ms \div 1000) \o <<".">> \o FracDigits(ms % 1000)

\* the f-string of main.py:127-134
MetricsOutput(uptime, version, environment) ==
    <<"# HELP app_uptime_seconds Application uptime in seconds", "\n",
      "# TYPE app_uptime_seconds gauge", "\n",
      "app_uptime_seconds", " ">> \o FormatFloat(uptime) \o
    <<"\n", "\n",
      "# HELP app_info Application information", "\n",
      "# TYPE app_info gauge", "\n",
      "app_info", "{", "version", "=", "\"", version, "\"", ",",
      "environment", "=", "\"", environment, "\"", "}", " ", "1", "\n">>

\* JSONResponse.render of a str (main.py:135-138): json.dumps quotes the
\* text and escapes the quote and the newline
JsonEscape(tok) ==
    CASE tok = "\"" -> <<"\\", "\"">>
      [] tok = "\n" -> <<"\\", "n">>
      [] tok = "\\" -> <<"\\", "\\">>
      [] OTHER      -> <<tok>>

RECURSIVE JsonEscapeAll(_)
JsonEscapeAll(text) ==
    IF text = <<>> THEN <<>> ELSE JsonEscape(Head(text)) \o JsonEscapeAll(Tail(text))

JsonDumps(text) == <<"\"">> \o JsonEscapeAll(text) \o <<"\"">>

-----------------------------------------------------------------------------
(* Requests and responses *)

NoBody == [present |-> FALSE, kind |-> "none", text |-> <<>>]

\* JSON bodies sent to POST /api/process: the message field as a JSON
\* string, as a value of another JSON type, or absent ({})
Bodies(messages) ==
    {[present |-> TRUE, kind |-> "string", text |-> m] : m \in messages}
        \cup {[present |-> TRUE, kind |-> "number", text |-> <<"4", "2">>],
              [present |-> TRUE, kind |-> "null", text |-> <<>>],
              [present |-> TRUE, kind |-> "array", text |-> <<>>],
              NoBody}

\* a field that also takes a JSON number and turns it into a str
MessageRequestLax(body) == body.present /\ body.kind \in {"string", "number"}

\* class MessageRequest, "message: str" (main.py:43-45): the field is
\* required and must be a JSON string
MessageRequest(body) == body.present /\ body.kind = "string"

NoFault == [type |-> "none", msg |-> ""]

\* exceptions that the operations on the message in the try block of
\* process_message can raise (main.py:148-158)
Faults ==
    {[type |-> "MemoryError", msg |-> "out of memory"],
     [type |-> "UnicodeEncodeError", msg |-> "log stream cannot encode"]}

NoResponse == [route |-> "none", status |-> 0, body |-> [none |-> TRUE]]

NoResubmit == [processed |-> <<>>, length |-> 0 - 1]

NoObs == [route |-> "none", now |-> 0, uptime |-> 0]

\* detail=str(e)
HandlerFaultLeaks(e) == [status |-> 500, body |-> [detail |-> e.msg]]

\* HTTPException(status_code=500, ...) of main.py:161
HandlerFault(e) == [status |-> 500, body |-> [detail |-> "Internal server error"]]

\* length=len(original_message)
MessageResponseLenOfOriginal(message, now) ==
    [status |-> 200,
     body |-> [original |-> message,
               processed |-> Transform(message),
               length |-> Len(message),
               timestamp |-> now]]

\* MessageResponse(...) of main.py:153-158
MessageResponse(message, now) ==
    LET processed_message == Transform(message) IN
    [status |-> 200,
     body |-> [original |-> message,
               processed |-> processed_message,
               length |-> Len(processed_message),
               timestamp |-> now]]

\* the framework's answer to a body that MessageRequest rejects
ValidationError == [status |-> 422, body |-> [detail |-> "field error: message"]]

\* HealthResponse(...) of main.py:87-95
HealthResponse(now, start, version, environment) ==
    [status |-> 200,
     body |-> [status |-> "healthy",
               timestamp |-> now,
               uptime_seconds |-> round(now - start),
               version |-> version,
               environment |-> environment]]

\* the except branch of readiness_check (main.py:114-116)
ReadinessFailure(now) ==
    [status |-> 503, body |-> [detail |-> "Service not ready"]]

\* the try block of readiness_check (main.py:105-113); it makes no
\* dependency check, so nothing in it can fail
ReadinessResponse(now) ==
    [status |-> 200, body |-> [ready |-> TRUE, timestamp |-> now]]

\* main.py:125 and main.py:135-138
MetricsResponse(now, start, version, environment) ==
    [status |-> 200,
     body |-> [media_type |-> "text/plain",
               content |-> JsonDumps(MetricsOutput(now - start, version, environment))]]

\* main.py:73-78
RootResponse(version) ==
    [status |-> 200,
     body |-> [message |-> "Welcome to DevOps Pipeline Demo API",
               version |-> version,
               docs |-> "/docs",
               health |-> "/health"]]

\* main.py:167-180
InfoResponse(now, start, version, environment) ==
    [status |-> 200,
     body |-> [application |-> "DevOps Pipeline Demo API",
               version |-> version,
               environment |-> environment,
               uptime_seconds |-> round(now - start),
               python_version |-> "os.sys.version",
               endpoints |-> [health |-> "/health", ready |-> "/ready",
                              metrics |-> "/metrics", docs |-> "/docs",
                              process |-> "/api/process"]]]

Answer(route, r) == [route |-> route, status |-> r.status, body |-> r.body]

-----------------------------------------------------------------------------
(* The service *)

\* the environment of the process: APP_VERSION and ENVIRONMENT unset
\* (the defaults of main.py:30-31) or both set
Environs == {<<"1.0.0", "development">>, <<"2.1.0", "production">>}

Init ==
    /\ clock \in 0..MaxStart
    /\ APP_START_TIME = clock
    /\ \E e \in Environs : APP_VERSION = e[1] /\ ENVIRONMENT = e[2]
    /\ req = [route |-> "none", body |-> NoBody]
    /\ resp = NoResponse
    /\ entered = FALSE
    /\ raised = NoFault
    /\ latest = NoObs
    /\ earlier = NoObs
    /\ resubmitOf = NoResubmit
    /\ startup = [version |-> APP_VERSION, environment |-> ENVIRONMENT,
                  start |-> APP_START_TIME]

\* what no handler assigns: the module globals and the clock
Globals == <<clock, APP_START_TIME, APP_VERSION, ENVIRONMENT, startup>>

\* bookkeeping of a handler that reports no uptime
NoUptime ==
    /\ earlier' \in {earlier, latest}
    /\ latest' = NoObs

\* bookkeeping of a handler that reports an uptime
Observe(route, uptime) ==
    /\ earlier' \in {earlier, latest}
    /\ latest' = [route |-> route, now |-> clock, uptime |-> uptime]

\* a handler that reads the environment again and takes the defaults
GetReloading(route) ==
    /\ req' = [route |-> route, body |-> NoBody]
    /\ entered' = FALSE
    /\ raised' = NoFault
    /\ resubmitOf' = NoResubmit
    /\ APP_VERSION' = "1.0.0"
    /\ ENVIRONMENT' = "development"
    /\ UNCHANGED <<clock, APP_START_TIME, startup>>

Get(route) ==
    /\ req' = [route |-> route, body |-> NoBody]
    /\ entered' = FALSE
    /\ raised' = NoFault
    /\ resubmitOf' = NoResubmit
    /\ UNCHANGED Globals

\* GET /
root ==
    /\ Get("/")
    /\ resp' = Answer("/", RootResponse(APP_VERSION))
    /\ NoUptime

\* GET /health
health_check ==
    /\ Get("/health")
    /\ resp' = Answer("/health",
                      HealthResponse(clock, APP_START_TIME, APP_VERSION, ENVIRONMENT))
    /\ Observe("/health", resp'.body.uptime_seconds)

\* GET /ready
readiness_check ==
    /\ Get("/ready")
    /\ resp' = Answer("/ready", ReadinessResponse(clock))
    /\ NoUptime

\* GET /metrics
metrics ==
    /\ Get("/metrics")
    /\ resp' = Answer("/metrics",
                      MetricsResponse(clock, APP_START_TIME, APP_VERSION, ENVIRONMENT))
    /\ Observe("/metrics", clock - APP_START_TIME)

\* GET /api/info
app_info ==
    /\ Get("/api/info")
    /\ resp' = Answer("/api/info",
                      InfoResponse(clock, APP_START_TIME, APP_VERSION, ENVIRONMENT))
    /\ Observe("/api/info", resp'.body.uptime_seconds)

\* POST /api/process with the given body; fault is what the try block raises
process_message(body, fault) ==
    /\ req' = [route |-> "/api/process", body |-> body]
    /\ IF ~MessageRequest(body)
       THEN /\ entered' = FALSE
            /\ raised' = NoFault
            /\ resp' = Answer("/api/process", ValidationError)
       ELSE /\ entered' = TRUE
            /\ raised' = fault
            /\ resp' = Answer("/api/process",
                              IF fault = NoFault
                              THEN MessageResponse(body.text, clock)
                              ELSE HandlerFault(fault))
    /\ NoUptime
    /\ UNCHANGED Globals

Post(messages, faults) ==
    \E body \in Bodies(messages), fault \in faults :
        /\ process_message(body, fault)
        /\ resubmitOf' = NoResubmit

\* a client sends the processed text of the 200 response it just got
Resubmit ==
    /\ resp.route = "/api/process"
    /\ resp.status = 200
    /\ process_message([present |-> TRUE, kind |-> "string",
                        text |-> resp.body.processed], NoFault)
    /\ resubmitOf' = [processed |-> resp.body.processed, length |-> resp.body.length]

\* time passes
Tick ==
    /\ clock < MaxClock
    /\ clock' = clock + 1
    /\ UNCHANGED <<APP_START_TIME, APP_VERSION, ENVIRONMENT, req, resp, entered, raised,
                   latest, earlier, resubmitOf, startup>>

\* the system clock is set back (time.time() is the wall clock, not a
\* monotonic one)
ClockSetBack ==
    /\ \E t \in 0..(clock - 1) : clock' = t
    /\ UNCHANGED <<APP_START_TIME, APP_VERSION, ENVIRONMENT, req, resp, entered, raised,
                   latest, earlier, resubmitOf, startup>>

\* the whole service; the try block of process_message may raise.
\* The messages sent to it: the empty one, one with
\* surrounding whitespace, one that grows when uppercased
ServiceMessages == {<<>>, <<" ", "a", " ">>, <<"ß">>}

Next ==
    \/ root
    \/ health_check
    \/ readiness_check
    \/ metrics
    \/ app_info
    \/ Post(ServiceMessages, Faults \cup {NoFault})
    \/ Resubmit
    \/ Tick
    \/ ClockSetBack

Spec == Init /\ [][Next]_vars

\* POST /api/process alone, over every message up to MaxLen, when nothing
\* in the try block raises
NextProcess ==
    \/ Post(StrsUpTo(MaxLen), {NoFault})
    \/ Resubmit

SpecProcess == Init /\ [][NextProcess]_vars

-----------------------------------------------------------------------------
(* Reading a /metrics body back *)

RECURSIVE JsonUnescape(_)
JsonUnescape(s) ==
    IF s = <<>> THEN <<>>
    ELSE IF Head(s) = "\\" /\ Len(s) >= 2
         THEN <<(IF s[2] = "n" THEN "\n" ELSE s[2])>> \o JsonUnescape(Tail(Tail(s)))
         ELSE <<Head(s)>> \o JsonUnescape(Tail(s))

\* json.loads of a JSON string
JsonLoads(s) == JsonUnescape(SubSeq(s, 2, Len(s) - 1))

\* the line of text that starts at position i, without its newline
RECURSIVE LineFrom(_, _)
LineFrom(text, i) ==
    IF i > Len(text) \/ text[i] = "\n" THEN <<>>
    ELSE <<text[i]>> \o LineFrom(text, i + 1)

\* the sample lines of the metric: the lines that start with its name
Samples(text, name) ==
    {LineFrom(text, i) : i \in {j \in 1..Len(text) :
                                  text[j] = name /\ (j = 1 \/ text[j - 1] = "\n")}}

RECURSIVE DigitsValue(_)
DigitsValue(ds) ==
    IF ds = <<>> THEN 0 ELSE 10 * DigitsValue(SubSeq(ds, 1, Len(ds) - 1)) + DigitVal(ds[Len(ds)])

\* the fraction digits as thousandths
Thousandths(ds) ==
    DigitsValue(ds) * (CASE Len(ds) = 1 -> 100 [] Len(ds) = 2 -> 10 [] OTHER -> 1)

Dot(ds) == CHOOSE i \in 1..Len(ds) : ds[i] = "."

\* the value of a decimal numeral, in milliseconds
ParseMs(ds) ==
    IF ds # <<>> /\ Head(ds) = "-"
    THEN 0 - (1000 * DigitsValue(SubSeq(ds, 2, Dot(ds) - 1))
                 + Thousandths(SubSeq(ds, Dot(ds) + 1, Len(ds))))
    ELSE 1000 * DigitsValue(SubSeq(ds, 1, Dot(ds) - 1))
             + Thousandths(SubSeq(ds, Dot(ds) + 1, Len(ds)))

IsProcess == req.route = "/api/process"

-----------------------------------------------------------------------------
(* Claims *)

\* C1: a POST /api/process whose body carries a string message is answered
\* 200 with processed = uppercase(trim(message)), although the handler
\* uppercases first and trims second.
C1_ProcessedIsUpperOfTrim ==
    (IsProcess /\ MessageRequest(req.body)) =>
        /\ resp.status = 200
        /\ resp.body.processed = upper(strip(req.body.text))

\* a message with surrounding whitespace and a letter to raise was processed
C1_Witness ==
    /\ IsProcess
    /\ req.body.text = <<" ", "a", " ">>
    /\ resp.status = 200
    /\ resp.body.processed = <<"A">>

C3_InvalidBodyIs422 ==
    (IsProcess /\ ~(req.body.present /\ req.body.kind = "string")) =>
        /\ resp.status = 422
        /\ ~entered

\* a message of a non-string type was rejected
C3_Witness ==
    /\ IsProcess
    /\ req.body.kind = "number"
    /\ resp.status = 422

\* C4: for two requests to the same route among /health, /api/info and
\* /metrics, the later one never reports a smaller uptime.
C4_UptimeNeverDecreases ==
    (latest.route # "none" /\ earlier.route = latest.route) =>
        latest.uptime >= earlier.uptime

\* C5 as stated: of two /health calls, the one made at a later clock reading
\* reports a strictly greater uptime_seconds.
C5_StrictlyGreaterAfterAnyGap ==
    (latest.route = "/health" /\ earlier.route = "/health" /\ latest.now > earlier.now) =>
        latest.uptime > earlier.uptime

\* C5, amended: of two /health calls, the one made at a clock reading more
\* than 0.01 s later reports a strictly greater uptime_seconds, and one made
\* at any later reading reports an uptime_seconds that is not smaller.
C5_StrictlyGreaterAfterHundredth ==
    (latest.route = "/health" /\ earlier.route = "/health") =>
        /\ 4 * (latest.now - earlier.now) > 10 => latest.uptime > earlier.uptime
        /\ latest.now > earlier.now => latest.uptime >= earlier.uptime

\* two /health calls more than 0.01 s apart, the second with more uptime
C5_Witness ==
    /\ latest.route = "/health"
    /\ earlier.route = "/health"
    /\ 4 * (latest.now - earlier.now) > 10
    /\ latest.uptime > earlier.uptime

\* C6: every GET /ready is answered 200 with ready true and a timestamp,
\* and no response of the service has status 503.
C6_ReadyAlways200 ==
    /\ resp.status # 503
    /\ req.route = "/ready" =>
        /\ resp.status = 200
        /\ resp.body.ready = TRUE
        /\ "timestamp" \in DOMAIN resp.body

\* a GET /ready answered after earlier requests and after time has passed
C6_Witness ==
    /\ req.route = "/ready"
    /\ resp.status = 200
    /\ earlier.route = "/metrics"
    /\ clock > APP_START_TIME

\* C7: version, environment and start time keep their startup values, every
\* response that carries a version or an environment carries the startup
\* one, and every /health response has status "healthy".
C7_ConfigNeverChanges ==
    /\ APP_VERSION = startup.version
    /\ ENVIRONMENT = startup.environment
    /\ APP_START_TIME = startup.start
    /\ req.route \in {"/", "/health", "/api/info"} => resp.body.version = startup.version
    /\ req.route \in {"/health", "/api/info"} => resp.body.environment = startup.environment
    /\ req.route = "/health" => resp.body.status = "healthy"
    /\ req.route = "/metrics" =>
         \A line \in Samples(JsonLoads(resp.body.content), "app_info") :
             /\ line[6] = startup.version
             /\ line[12] = startup.environment

\* a /health response after other requests, in a process whose environment
\* is not the default one
C7_Witness ==
    /\ req.route = "/health"
    /\ resp.body.environment = "production"
    /\ earlier.route = "/api/info"
    /\ clock < APP_START_TIME

\* C8: when the try block of process_message raises, the response is 500
\* with the detail "Internal server error" whatever the exception says, and
\* every response to POST /api/process has status 200, 422 or 500.
C8_FaultIsGeneric500 ==
    IsProcess =>
        /\ resp.status \in {200, 422, 500}
        /\ raised # NoFault =>
             /\ resp.status = 500
             /\ resp.body = [detail |-> "Internal server error"]
        /\ resp.status = 500 => raised # NoFault

\* the handler raised on a valid request
C8_Witness ==
    /\ IsProcess
    /\ raised.type = "MemoryError"
    /\ MessageRequest(req.body)
    /\ resp.status = 500

\* C9: every GET /metrics is answered 200 with a body that holds one
\* app_uptime_seconds sample, whose value is the clock reading minus the
\* start time, unrounded, and one app_info sample with value 1 and the
\* configured version and environment as labels.
C9_MetricsSamples ==
    req.route = "/metrics" =>
        LET text == JsonLoads(resp.body.content) IN
        /\ resp.status = 200
        /\ \E line \in Samples(text, "app_uptime_seconds") :
             /\ Samples(text, "app_uptime_seconds") = {line}
             /\ line[2] = " "
             /\ ParseMs(SubSeq(line, 3, Len(line))) = 4 * (latest.now - APP_START_TIME)
        /\ Samples(text, "app_info") =
             {<<"app_info", "{", "version", "=", "\"", APP_VERSION, "\"", ",",
                "environment", "=", "\"", ENVIRONMENT, "\"", "}", " ", "1">>}

\* a /metrics response whose uptime is not a whole number of hundredths
C9_Witness ==
    /\ req.route = "/metrics"
    /\ latest.now - APP_START_TIME = 3
    /\ resp.status = 200

\* C10: when the processed text of a 200 response is sent back as the
\* message, the new response has the same processed and length, and its
\* original equals its processed.
C10_TransformIdempotent ==
    resubmitOf # NoResubmit =>
        /\ resp.status = 200
        /\ resp.body.processed = resubmitOf.processed
        /\ resp.body.length = resubmitOf.length
        /\ resp.body.original = resp.body.processed

\* the processed text of a message that was trimmed, raised and lengthened
\* came back unchanged
C10_Witness ==
    /\ resubmitOf.processed = <<"A", " ", "S", "S">>
    /\ resp.status = 200
    /\ resp.body.processed = <<"A", " ", "S", "S">>

====
